---- MODULE Spec2Model ----
(***************************************************************************)
(* Crossover operators of src/crossover_methods.py (single point, cycle,   *)
(* partially mapped) and the distance-matrix loader of load_distances.py.  *)
(*                                                                         *)
(* Routes (Python tuples / lists) are TLA+ sequences; Python positions are *)
(* kept 0-based, and At(t, idx) reads position idx.  Genes are the opaque  *)
(* values 1..n.                                                            *)
(***************************************************************************)
EXTENDS Integers, Sequences, FiniteSets, TLC

VARIABLES
    op,             \* the crossover function being called
    parent1,        \* argument parent1
    parent2,        \* argument parent2
    pc,             \* position inside the called function
    child1,         \* local child1 (the first returned route once pc = "done")
    child2,         \* local child2 (the second returned route once pc = "done")
    i,              \* loop variable i of the running for loop
    point1,         \* point (single point) / point1 (PMX); -1 before it is drawn
    point2,         \* point2 (PMX); -1 before it is drawn
    mapping1,       \* PMX dict mapping1
    mapping2,       \* PMX dict mapping2
    resolving,      \* which resolve_gene_mapping call is running: 1, 2 (0: none)
    cycle_indices,  \* last list returned by create_cycle
    raised,         \* exception leaving the crossover function ("" if none)
    lpc,            \* position inside load_distances
    file_state,     \* what open() finds: "ok", "missing", "unreadable"
    num_lines,      \* len(lines)
    header,         \* lines[0] as a token
    num_cities,     \* local num_cities
    city_names,     \* local city_names
    city_distances, \* local city_distances
    row,            \* loop variable i of parse_matrix
    exc             \* exception leaving load_distances ("" if none)

cvars == <<op, parent1, parent2, pc, child1, child2, i, point1, point2,
           mapping1, mapping2, resolving, cycle_indices, raised>>
lvars == <<lpc, file_state, num_lines, header, num_cities, city_names,
           city_distances, row, exc>>
vars == <<op, parent1, parent2, pc, child1, child2, i, point1, point2,
          mapping1, mapping2, resolving, cycle_indices, raised,
          lpc, file_state, num_lines, header, num_cities, city_names,
          city_distances, row, exc>>

-----------------------------------------------------------------------------
(* Bounds *)

\* longest route for which every pair of parents is enumerated
MaxN == 3

\* longest route for which parent1 = (1, ..., n) meets every parent2
MaxSortedN == 5

\* most cities a distance file announces
MaxCities == 2

\* largest distance written in a distance file
MaxDist == 1

-----------------------------------------------------------------------------
(* Python sequence helpers *)

\* t[idx] for a 0-based Python position
At(t, idx) == t[idx + 1]

\* the set of elements of a list or tuple
Range(t) == {t[k] : k \in 1..Len(t)}

\* t[:stop] for 0 <= stop <= len(t)
Prefix(t, stop) == SubSeq(t, 1, stop)

\* t with position idx (0-based) set to v
SetAt(t, idx, v) == [t EXCEPT ![idx + 1] = v]

\* every route over the genes 1..n
Routes(n) ==
    {s \in [1..n -> 1..n] : \A a, b \in 1..n : a # b => s[a] # s[b]}

\* t holds every gene of the route `of` exactly once
IsPermutationOf(t, of) ==
    /\ Len(t) = Len(of)
    /\ Range(t) = Range(of)
    /\ \A a, b \in 1..Len(t) : a # b => t[a] # t[b]

-----------------------------------------------------------------------------
(* single_point_crossover *)

\* [gene for gene in b if gene not in a[:point]] appended to a[:point]: inverted test
SinglePointChildInverted(a, b, point) ==
    Prefix(a, point) \o SelectSeq(b, LAMBDA gene : gene \in Range(Prefix(a, point)))

\* a[:point] followed by b[point:], with no repair
SinglePointChildNoRepair(a, b, point) ==
    Prefix(a, point) \o SubSeq(b, point + 1, Len(b))

\* list(a[:point]) + [gene for gene in b if gene not in a[:point]]
SinglePointChild(a, b, point) ==
    Prefix(a, point) \o SelectSeq(b, LAMBDA gene : gene \notin Range(Prefix(a, point)))

SinglePointShortCircuit ==
    /\ pc = "call"
    /\ op = "single_point_crossover"
    /\ Len(parent1) < 2
    /\ child1' = parent1
    /\ child2' = parent2
    /\ pc' = "done"
    /\ UNCHANGED <<op, parent1, parent2, i, point1, point2, mapping1, mapping2,
                   resolving, cycle_indices, raised>>
    /\ UNCHANGED lvars

SinglePointCrossover ==
    /\ pc = "call"
    /\ op = "single_point_crossover"
    /\ Len(parent1) >= 2
    /\ \E point \in 1..(Len(parent1) - 1) :
        /\ point1' = point
        /\ child1' = SinglePointChild(parent1, parent2, point)
        /\ child2' = SinglePointChild(parent2, parent1, point)
    /\ pc' = "done"
    /\ UNCHANGED <<op, parent1, parent2, i, point2, mapping1, mapping2,
                   resolving, cycle_indices, raised>>
    /\ UNCHANGED lvars

-----------------------------------------------------------------------------
(* cycle_crossover *)

\* child1 = list(parent2); child2 = list(parent1)
CxInitChildrenSwapped(p1, p2) == <<p2, p1>>

\* child1 = list(parent1); child2 = list(parent2)
CxInitChildren(p1, p2) == <<p1, p2>>

\* {value: parent2_idx for parent2_idx, value in enumerate(parent2)}
\* (a later occurrence of a value overwrites an earlier one)
Parent2IndexMap(p2) ==
    [value \in Range(p2) |->
        CHOOSE idx \in 0..(Len(p2) - 1) :
            /\ At(p2, idx) = value
            /\ \A later \in (idx + 1)..(Len(p2) - 1) : At(p2, later) # value]

\* the while loop with its two statements in the other order
RECURSIVE CreateCycleLoopAdvanceFirst(_, _, _, _)
CreateCycleLoopAdvanceFirst(p1, p2, indices_in_cycle, current_idx) ==
    IF current_idx \in Range(indices_in_cycle)
    THEN [indices_in_cycle |-> indices_in_cycle, current_idx |-> current_idx]
    ELSE CreateCycleLoopAdvanceFirst(p1, p2,
            Append(indices_in_cycle, Parent2IndexMap(p2)[At(p1, current_idx)]),
            Parent2IndexMap(p2)[At(p1, current_idx)])

\* the while loop of create_cycle, run to its exit: the locals at the exit
RECURSIVE CreateCycleLoop(_, _, _, _)
CreateCycleLoop(p1, p2, indices_in_cycle, current_idx) ==
    IF current_idx \in Range(indices_in_cycle)
    THEN [indices_in_cycle |-> indices_in_cycle, current_idx |-> current_idx]
    ELSE CreateCycleLoop(p1, p2,
            Append(indices_in_cycle, current_idx),
            Parent2IndexMap(p2)[At(p1, current_idx)])

\* create_cycle(start_idx)
CreateCycle(p1, p2, start_idx) ==
    CreateCycleLoop(p1, p2, <<>>, start_idx).indices_in_cycle

\* for idx in cycle_indices: child[idx] = parent[idx]
AssignCycle(child, parent, indices) ==
    [k \in 1..Len(child) |->
        IF (k - 1) \in Range(indices) THEN parent[k] ELSE child[k]]

CxBegin ==
    /\ pc = "call"
    /\ op = "cycle_crossover"
    /\ child1' = CxInitChildren(parent1, parent2)[1]
    /\ child2' = CxInitChildren(parent1, parent2)[2]
    /\ i' = 0
    /\ pc' = "cx_first_loop"
    /\ UNCHANGED <<op, parent1, parent2, point1, point2, mapping1, mapping2,
                   resolving, cycle_indices, raised>>
    /\ UNCHANGED lvars

\* one iteration of the first for loop
CxFirstLoopStep ==
    /\ pc = "cx_first_loop"
    /\ i < Len(parent1)
    /\ IF At(child1, i) = At(parent1, i)
       THEN /\ cycle_indices' = CreateCycle(parent1, parent2, i)
            /\ child1' = AssignCycle(child1, parent1, cycle_indices')
            /\ child2' = AssignCycle(child2, parent2, cycle_indices')
       ELSE UNCHANGED <<cycle_indices, child1, child2>>
    /\ i' = i + 1
    /\ UNCHANGED <<op, parent1, parent2, pc, point1, point2, mapping1, mapping2,
                   resolving, raised>>
    /\ UNCHANGED lvars

CxFirstLoopExit ==
    /\ pc = "cx_first_loop"
    /\ i = Len(parent1)
    /\ i' = 0
    /\ pc' = "cx_second_loop"
    /\ UNCHANGED <<op, parent1, parent2, child1, child2, point1, point2,
                   mapping1, mapping2, resolving, cycle_indices, raised>>
    /\ UNCHANGED lvars

\* one iteration of the second for loop
CxSecondLoopStep ==
    /\ pc = "cx_second_loop"
    /\ i < Len(parent1)
    /\ child1' = IF At(child1, i) # At(parent1, i)
                 THEN SetAt(child1, i, At(parent2, i)) ELSE child1
    /\ child2' = IF At(child2, i) # At(parent2, i)
                 THEN SetAt(child2, i, At(parent1, i)) ELSE child2
    /\ i' = i + 1
    /\ UNCHANGED <<op, parent1, parent2, pc, point1, point2, mapping1, mapping2,
                   resolving, cycle_indices, raised>>
    /\ UNCHANGED lvars

CxReturn ==
    /\ pc = "cx_second_loop"
    /\ i = Len(parent1)
    /\ pc' = "done"
    /\ UNCHANGED <<op, parent1, parent2, child1, child2, i, point1, point2,
                   mapping1, mapping2, resolving, cycle_indices, raised>>
    /\ UNCHANGED lvars

-----------------------------------------------------------------------------
(* partially_mapped_crossover *)

\* {keys[i]: values[i] for i in range(point1, point2)}
\* (a later occurrence of a key overwrites an earlier one)
SliceMapping(keys, values, p1, p2) ==
    [gene \in {At(keys, k) : k \in p1..(p2 - 1)} |->
        At(values, CHOOSE k \in p1..(p2 - 1) :
            /\ At(keys, k) = gene
            /\ \A later \in (k + 1)..(p2 - 1) : At(keys, later) # gene)]

\* for i in range(point1, point2): child[i] = other[i]
SwapSlice(child, other, p1, p2) ==
    [k \in 1..Len(child) |->
        IF p1 <= k - 1 /\ k - 1 < p2 THEN other[k] ELSE child[k]]

\* point1 < idx < point2: position point1 is not skipped
InSliceOpenLeft(idx, p1, p2) == p1 < idx /\ idx < p2

\* point1 <= i < point2
InSlice(idx, p1, p2) == p1 <= idx /\ idx < p2

\* np.random.choice(range(size), 2, replace=False) cannot draw 2 from fewer
PmxRaise ==
    /\ pc = "call"
    /\ op = "partially_mapped_crossover"
    /\ Len(parent1) < 2
    /\ child1' = parent1
    /\ child2' = parent2
    /\ raised' = "ValueError"
    /\ pc' = "raised"
    /\ UNCHANGED <<op, parent1, parent2, i, point1, point2, mapping1, mapping2,
                   resolving, cycle_indices>>
    /\ UNCHANGED lvars

\* everything up to the first resolve_gene_mapping call
PmxBegin ==
    /\ pc = "call"
    /\ op = "partially_mapped_crossover"
    /\ Len(parent1) >= 2
    /\ \E a, b \in 0..(Len(parent1) - 1) :
        /\ a < b
        /\ point1' = a
        /\ point2' = b
        /\ mapping1' = SliceMapping(parent1, parent2, a, b)
        /\ mapping2' = SliceMapping(parent2, parent1, a, b)
        /\ child1' = SwapSlice(parent1, parent2, a, b)
        /\ child2' = SwapSlice(parent2, parent1, a, b)
    /\ resolving' = 1
    /\ i' = 0
    /\ pc' = "pmx_resolve"
    /\ UNCHANGED <<op, parent1, parent2, cycle_indices, raised>>
    /\ UNCHANGED lvars

\* resolve_gene_mapping at position i: skip a slice position, follow the
\* mapping once, or move to the next position
ResolveStep(child, mapping) ==
    IF InSlice(i, point1, point2)
    THEN [child |-> child, i |-> i + 1]
    ELSE IF At(child, i) \in DOMAIN mapping
         THEN [child |-> SetAt(child, i, mapping[At(child, i)]), i |-> i]
         ELSE [child |-> child, i |-> i + 1]

PmxResolveChild1 ==
    /\ pc = "pmx_resolve"
    /\ resolving = 1
    /\ i < Len(parent1)
    /\ child1' = ResolveStep(child1, mapping1).child
    /\ i' = ResolveStep(child1, mapping1).i
    /\ UNCHANGED <<op, parent1, parent2, pc, child2, point1, point2, mapping1,
                   mapping2, resolving, cycle_indices, raised>>
    /\ UNCHANGED lvars

PmxResolveSecondCall ==
    /\ pc = "pmx_resolve"
    /\ resolving = 1
    /\ i = Len(parent1)
    /\ resolving' = 2
    /\ i' = 0
    /\ UNCHANGED <<op, parent1, parent2, pc, child1, child2, point1, point2,
                   mapping1, mapping2, cycle_indices, raised>>
    /\ UNCHANGED lvars

PmxResolveChild2 ==
    /\ pc = "pmx_resolve"
    /\ resolving = 2
    /\ i < Len(parent1)
    /\ child2' = ResolveStep(child2, mapping2).child
    /\ i' = ResolveStep(child2, mapping2).i
    /\ UNCHANGED <<op, parent1, parent2, pc, child1, point1, point2, mapping1,
                   mapping2, resolving, cycle_indices, raised>>
    /\ UNCHANGED lvars

PmxReturn ==
    /\ pc = "pmx_resolve"
    /\ resolving = 2
    /\ i = Len(parent1)
    /\ pc' = "done"
    /\ UNCHANGED <<op, parent1, parent2, child1, child2, i, point1, point2,
                   mapping1, mapping2, resolving, cycle_indices, raised>>
    /\ UNCHANGED lvars

-----------------------------------------------------------------------------
(* load_distances *)

\* a whitespace-separated token of the file: digits with a value, or other text
NumericToken(v) == [numeric |-> TRUE, val |-> v]
TextToken == [numeric |-> FALSE, val |-> 0]

\* int(token) succeeds
IntParses(token) == token.numeric

\* int(token), when it succeeds
IntOf(token) == token.val

\* the except clauses of load_distances, in order: what leaves the function
\* when `error` is raised inside the try block
ExceptClauses(error) ==
    CASE error = "FileNotFoundError" -> "FileNotFoundError"
      [] error \in {"ValueError", "UnicodeDecodeError"} -> "ValueError"
      [] error \in {"OSError", "PermissionError"} -> "OSError"
      [] OTHER -> "DistanceMatrixError"

\* f"city_{i+1}", written as its number
CityName(idx) == idx + 1

\* [f"city_{i+1}" for i in range(num_cities)]
CityNames(n) == [k \in 1..n |-> CityName(k - 1)]

\* len(lines[1: stop]) for a list of `len` lines (Python slice clamping)
SliceRows(len, stop) ==
    LET hi == IF stop < 0 THEN (IF len + stop < 0 THEN 0 ELSE len + stop)
              ELSE (IF stop > len THEN len ELSE stop)
    IN  IF hi > 1 THEN hi - 1 ELSE 0

\* the entries row i adds: city_distances[(city_names[i], city_names[j])] = value
RowEntries(names, idx, values) ==
    [key \in {<<At(names, idx), At(names, j)>> : j \in (0..(Len(values) - 1)) \ {idx}} |->
        At(values, CHOOSE j \in (0..(Len(values) - 1)) \ {idx} :
                        key = <<At(names, idx), At(names, j)>>)]

\* dict `d` after the assignments of `entries`
Updated(d, entries) ==
    [key \in DOMAIN d \cup DOMAIN entries |->
        IF key \in DOMAIN entries THEN entries[key] ELSE d[key]]

\* the validation test without the sign check
ItemInvalidNoSignCheck(d, key) ==
    \/ <<key[2], key[1]>> \notin DOMAIN d
    \/ d[<<key[2], key[1]>>] # d[key]

\* dist < 0 or city_distances.get((city2, city1), None) != dist
ItemInvalid(d, key) ==
    \/ d[key] < 0
    \/ <<key[2], key[1]>> \notin DOMAIN d
    \/ d[<<key[2], key[1]>>] # d[key]

\* the lines a matrix row may hold when num_cities = n: every row of n
\* distances, a row one value short, a row one value long, a row with text
RowLines(n) ==
    {[k \in 1..n |-> NumericToken(v[k])] : v \in [1..n -> (0 - 1)..MaxDist]}
        \cup {[k \in 1..(n + 1) |-> NumericToken(0)]}
        \cup (IF n >= 1 THEN {[k \in 1..(n - 1) |-> NumericToken(0)],
                              [k \in 1..n |-> IF k = n THEN TextToken
                                              ELSE NumericToken(0)]}
              ELSE {})

\* list(map(int, line.split()))
Values(line) == [k \in 1..Len(line) |-> IntOf(line[k])]

LoadRaise(error) ==
    /\ exc' = ExceptClauses(error)
    /\ lpc' = "raised"

\* open() or readlines() fails
LoadOpenFails ==
    /\ lpc = "open"
    /\ file_state # "ok"
    /\ LoadRaise(CASE file_state = "missing" -> "FileNotFoundError"
                   [] file_state = "unreadable" -> "PermissionError"
                   [] OTHER -> "UnicodeDecodeError")
    /\ UNCHANGED <<file_state, num_lines, header, num_cities, city_names,
                   city_distances, row>>
    /\ UNCHANGED cvars

\* lines = f.readlines()
LoadReadLines ==
    /\ lpc = "open"
    /\ file_state = "ok"
    /\ \E len \in 0..(MaxCities + 2) : num_lines' = len
    /\ lpc' = "header"
    /\ UNCHANGED <<file_state, header, num_cities, city_names, city_distances,
                   row, exc>>
    /\ UNCHANGED cvars

\* lines[0] of an empty file
LoadHeaderMissing ==
    /\ lpc = "header"
    /\ num_lines = 0
    /\ LoadRaise("IndexError")
    /\ UNCHANGED <<file_state, num_lines, header, num_cities, city_names,
                   city_distances, row>>
    /\ UNCHANGED cvars

\* int(lines[0].strip()) of a line that is no integer
LoadHeaderNotInt ==
    /\ lpc = "header"
    /\ num_lines > 0
    /\ header' = TextToken
    /\ ~IntParses(header')
    /\ LoadRaise("ValueError")
    /\ UNCHANGED <<file_state, num_lines, num_cities, city_names,
                   city_distances, row>>
    /\ UNCHANGED cvars

\* num_cities, city_names and the row-count check
LoadHeader ==
    /\ lpc = "header"
    /\ num_lines > 0
    /\ \E n \in (0 - 2)..MaxCities :
        /\ header' = NumericToken(n)
        /\ IntParses(header')
        /\ num_cities' = IntOf(header')
        /\ city_names' = CityNames(num_cities')
        /\ IF num_lines < num_cities' + 1
           THEN LoadRaise("ValueError")
           ELSE lpc' = "parse_matrix" /\ exc' = exc
    /\ city_distances' = <<>>
    /\ row' = 0
    /\ UNCHANGED <<file_state, num_lines>>
    /\ UNCHANGED cvars

\* one iteration of the outer loop of parse_matrix
ParseMatrixRow ==
    /\ lpc = "parse_matrix"
    /\ row < SliceRows(num_lines, num_cities + 1)
    /\ \E line \in RowLines(num_cities) :
        IF \E k \in 1..Len(line) : ~IntParses(line[k])
        THEN LoadRaise("ValueError") /\ UNCHANGED <<city_distances, row>>
        ELSE IF Len(Values(line)) # num_cities
        THEN LoadRaise("ValueError") /\ UNCHANGED <<city_distances, row>>
        ELSE /\ city_distances' =
                    Updated(city_distances, RowEntries(city_names, row, Values(line)))
             /\ row' = row + 1
             /\ UNCHANGED <<lpc, exc>>
    /\ UNCHANGED <<file_state, num_lines, header, num_cities, city_names>>
    /\ UNCHANGED cvars

\* return city_distances, back in load_distances
ParseMatrixReturn ==
    /\ lpc = "parse_matrix"
    /\ row = SliceRows(num_lines, num_cities + 1)
    /\ lpc' = "validate"
    /\ UNCHANGED <<file_state, num_lines, header, num_cities, city_names,
                   city_distances, row, exc>>
    /\ UNCHANGED cvars

\* the validation loop meets an item that fails a test
LoadValidateFails ==
    /\ lpc = "validate"
    /\ \E key \in DOMAIN city_distances : ItemInvalid(city_distances, key)
    /\ LoadRaise("ValueError")
    /\ UNCHANGED <<file_state, num_lines, header, num_cities, city_names,
                   city_distances, row>>
    /\ UNCHANGED cvars

\* the validation loop ends; return city_distances, city_names
LoadReturn ==
    /\ lpc = "validate"
    /\ \A key \in DOMAIN city_distances : ~ItemInvalid(city_distances, key)
    /\ lpc' = "returned"
    /\ UNCHANGED <<file_state, num_lines, header, num_cities, city_names,
                   city_distances, row, exc>>
    /\ UNCHANGED cvars

CrossoverIdle ==
    /\ op = "none"
    /\ parent1 = <<>>
    /\ parent2 = <<>>
    /\ pc = "idle"
    /\ child1 = <<>>
    /\ child2 = <<>>
    /\ i = 0
    /\ point1 = -1
    /\ point2 = -1
    /\ mapping1 = <<>>
    /\ mapping2 = <<>>
    /\ resolving = 0
    /\ cycle_indices = <<>>
    /\ raised = ""

LoadInit ==
    /\ CrossoverIdle
    /\ lpc = "open"
    /\ file_state \in {"ok", "missing", "unreadable", "undecodable"}
    /\ num_lines = 0
    /\ header = TextToken
    /\ num_cities = 0
    /\ city_names = <<>>
    /\ city_distances = <<>>
    /\ row = 0
    /\ exc = ""

LoadNext ==
    \/ LoadOpenFails
    \/ LoadReadLines
    \/ LoadHeaderMissing
    \/ LoadHeaderNotInt
    \/ LoadHeader
    \/ ParseMatrixRow
    \/ ParseMatrixReturn
    \/ LoadValidateFails
    \/ LoadReturn

LoadSpec == LoadInit /\ [][LoadNext]_vars

-----------------------------------------------------------------------------
(* Calls of the crossover functions *)

\* the PMX scenario of the specification's testable properties
ScenarioParent1 == <<1, 2, 3, 4, 5, 6, 7, 8, 9>>
ScenarioParent2 == <<9, 3, 7, 8, 2, 6, 5, 1, 4>>

\* valid parent pairs: two routes over the same genes
ParentPairs ==
    UNION {Routes(n) \X Routes(n) : n \in 0..MaxN}
        \cup UNION {{[k \in 1..n |-> k]} \X Routes(n) : n \in 0..MaxSortedN}
        \cup {<<ScenarioParent1, ScenarioParent2>>}

Operators ==
    {"single_point_crossover", "cycle_crossover", "partially_mapped_crossover"}

LoadIdle ==
    /\ lpc = "idle"
    /\ file_state = "ok"
    /\ num_lines = 0
    /\ header = TextToken
    /\ num_cities = 0
    /\ city_names = <<>>
    /\ city_distances = <<>>
    /\ row = 0
    /\ exc = ""

Init ==
    /\ op \in Operators
    /\ \E pair \in ParentPairs :
        /\ parent1 = pair[1]
        /\ parent2 = pair[2]
    /\ pc = "call"
    /\ child1 = <<>>
    /\ child2 = <<>>
    /\ i = 0
    /\ point1 = -1
    /\ point2 = -1
    /\ mapping1 = <<>>
    /\ mapping2 = <<>>
    /\ resolving = 0
    /\ cycle_indices = <<>>
    /\ raised = ""
    /\ LoadIdle

Next ==
    \/ SinglePointShortCircuit
    \/ SinglePointCrossover
    \/ CxBegin
    \/ CxFirstLoopStep
    \/ CxFirstLoopExit
    \/ CxSecondLoopStep
    \/ CxReturn
    \/ PmxRaise
    \/ PmxBegin
    \/ PmxResolveChild1
    \/ PmxResolveSecondCall
    \/ PmxResolveChild2
    \/ PmxReturn

Spec == Init /\ [][Next]_vars

\* a running call keeps running: Python always takes the next step
FairSpec == Init /\ [][Next]_vars /\ WF_vars(Next)

-----------------------------------------------------------------------------
(* Properties of the crossover functions *)

Returned == pc = "done"

\* C1: both children returned by partially_mapped_crossover hold every gene
\* of the parents exactly once (no duplicates, no omissions).
PmxChildrenArePermutations ==
    (op = "partially_mapped_crossover" /\ Returned) =>
        /\ IsPermutationOf(child1, parent1)
        /\ IsPermutationOf(child2, parent1)

\* the positions of the cycle that create_cycle(idx) walks
CycleOf(idx) == Range(CreateCycle(parent1, parent2, idx))

\* the lowest position of the cycle of idx: where the cycle is discovered
CycleStart(idx) == CHOOSE m \in CycleOf(idx) : \A k \in CycleOf(idx) : m <= k

\* the cycle of idx is the CycleRank(idx)-th cycle discovered (1st, 2nd, ...)
CycleRank(idx) ==
    Cardinality({CycleStart(j) : j \in {k \in 0..(Len(parent1) - 1) :
                                            CycleStart(k) <= CycleStart(idx)}})

\* C2: cycle_crossover alternates by discovery order: on the 1st, 3rd, ...
\* cycle child1 takes parent1 and child2 takes parent2; on the 2nd, 4th, ...
\* cycle child1 takes parent2 and child2 takes parent1.
CxAlternatesCycles ==
    (op = "cycle_crossover" /\ Returned) =>
        \A idx \in 0..(Len(parent1) - 1) :
            IF CycleRank(idx) % 2 = 1
            THEN /\ At(child1, idx) = At(parent1, idx)
                 /\ At(child2, idx) = At(parent2, idx)
            ELSE /\ At(child1, idx) = At(parent2, idx)
                 /\ At(child2, idx) = At(parent1, idx)

\* C3: for n >= 2 both children of single_point_crossover have length n and
\* hold every gene of the parents exactly once.
SinglePointChildrenArePermutations ==
    (op = "single_point_crossover" /\ Returned /\ Len(parent1) >= 2) =>
        /\ Len(child1) = Len(parent1)
        /\ Len(child2) = Len(parent1)
        /\ IsPermutationOf(child1, parent1)
        /\ IsPermutationOf(child2, parent1)

\* C3 witness: a cut inside two different parents whose repair step moved genes
SinglePointRepaired ==
    /\ op = "single_point_crossover"
    /\ Returned
    /\ Len(parent1) >= 3
    /\ point1 >= 1
    /\ child1 # parent1
    /\ child1 # parent2
    /\ child1 # SinglePointChildNoRepair(parent1, parent2, point1)

\* C4: for n = 0 and n = 1 every operator returns two children without
\* raising, and single_point_crossover returns the parents unchanged.
SmallParentsDoNotCrash ==
    (Len(parent1) < 2 /\ pc \in {"done", "raised"}) =>
        /\ pc = "done"
        /\ raised = ""
        /\ (op = "single_point_crossover" =>
                child1 = parent1 /\ child2 = parent2)

\* C5: the chain-following loop of partially_mapped_crossover terminates at
\* every position, so a call that reached resolve_gene_mapping returns.
PmxResolveTerminates == (pc = "pmx_resolve") ~> (pc = "done")

\* C5 witness: a returned PMX call that had positions outside the slice to
\* resolve, with slices that differ between the parents
PmxResolvedOutsideSlice ==
    /\ op = "partially_mapped_crossover"
    /\ Returned
    /\ point2 - point1 < Len(parent1)
    /\ DOMAIN mapping1 # {}
    /\ \E gene \in DOMAIN mapping1 : mapping1[gene] # gene

\* C6: with parent1 = parent2 = p every operator returns two children equal
\* to p, for every choice of cut points.
EqualParentsReturned ==
    (Returned /\ parent1 = parent2 /\ Len(parent1) >= 2) =>
        /\ child1 = parent1
        /\ child2 = parent1

\* C6 witness: a returned call on equal parents where a cut was drawn
EqualParentsCrossed ==
    /\ Returned
    /\ parent1 = parent2
    /\ Len(parent1) >= 3
    /\ point1 >= 1
    /\ child1 = parent1
    /\ child2 = parent2

\* the locals of create_cycle(start_idx) when its while loop exits
CycleWalk(start_idx) == CreateCycleLoop(parent1, parent2, <<>>, start_idx)

\* C9: the lists create_cycle(i) returns for i in 0..n-1 partition the
\* positions: each walk stops on returning to its start i, which it holds,
\* holds no index twice, and two lists are equal as sets or disjoint.
CreateCyclePartitions ==
    (op = "cycle_crossover") =>
        \A a \in 0..(Len(parent1) - 1) :
            LET walk == CycleWalk(a).indices_in_cycle
            IN  /\ CycleWalk(a).current_idx = a
                /\ Len(walk) >= 1
                /\ walk[1] = a
                /\ \A k, m \in 1..Len(walk) : k # m => walk[k] # walk[m]
                /\ Range(walk) \subseteq 0..(Len(parent1) - 1)
                /\ \A b \in 0..(Len(parent1) - 1) :
                    \/ Range(walk) = Range(CycleWalk(b).indices_in_cycle)
                    \/ Range(walk) \cap Range(CycleWalk(b).indices_in_cycle) = {}

\* C9 witness: the first loop has called create_cycle at every position of
\* parents with several cycles, one of them longer than one position
SeveralCyclesWalked ==
    /\ op = "cycle_crossover"
    /\ pc = "cx_second_loop"
    /\ Len(cycle_indices) >= 2
    /\ \E a, b \in 0..(Len(parent1) - 1) : CycleOf(a) \cap CycleOf(b) = {}

\* C10: cycle_crossover returns child1 = parent1 and child2 = parent2: the
\* children equal the parents from their initialisation on, so the guard of
\* the first loop holds at every index and the second loop changes nothing.
CxReturnsParents ==
    (op = "cycle_crossover" /\ pc # "call") =>
        /\ child1 = parent1
        /\ child2 = parent2

\* C10 witness: a returned call on parents that differ on their second cycle
CxReturnedSecondCycleUnswapped ==
    /\ op = "cycle_crossover"
    /\ Returned
    /\ \E idx \in 0..(Len(parent1) - 1) :
        /\ CycleRank(idx) = 2
        /\ At(parent1, idx) # At(parent2, idx)
        /\ At(child1, idx) = At(parent1, idx)

-----------------------------------------------------------------------------
(* Properties of load_distances *)

\* the city names of the returned list
Cities == Range(city_names)

\* C7: when load_distances returns, the dictionary has an entry for every
\* ordered pair of distinct cities, each >= 0 and equal to the entry of the
\* reversed pair.
ReturnedDistancesSymmetricNonNegative ==
    (lpc = "returned") =>
        \A a, b \in Cities :
            a # b =>
                /\ <<a, b>> \in DOMAIN city_distances
                /\ city_distances[<<a, b>>] >= 0
                /\ city_distances[<<a, b>>] = city_distances[<<b, a>>]

\* C7 witness: a returned matrix of several cities with a positive distance
ReturnedPositiveDistances ==
    /\ lpc = "returned"
    /\ num_cities >= 2
    /\ \E key \in DOMAIN city_distances : city_distances[key] > 0

\* the matrix was read whole: an entry for every ordered pair of cities
MatrixRead ==
    /\ num_cities >= 2
    /\ DOMAIN city_distances = {<<a, b>> \in Cities \X Cities : a # b}

\* C8: load_distances raises DistanceMatrixError when the matrix read has a
\* negative distance or entries for (a, b) and (b, a) that differ.
InvalidMatrixRaisesDistanceMatrixError ==
    (/\ lpc \in {"raised", "returned"}
     /\ MatrixRead
     /\ \E a, b \in Cities :
            /\ a # b
            /\ \/ city_distances[<<a, b>>] < 0
               \/ city_distances[<<a, b>>] # city_distances[<<b, a>>])
        => (lpc = "raised" /\ exc = "DistanceMatrixError")

====
